---- MODULE Spec2Model ----
(***************************************************************************)
(* Model of the matching core of match_maker_automated.py and of the       *)
(* history write-back built by app.py.                                     *)
(*                                                                         *)
(* Participant identifiers (emails) are the integers 1..MaxUsers; their    *)
(* integer order stands for Python's string order used by sorted().        *)
(* A participant record keeps its 'email' field only: no property below    *)
(* reads the name or the other attributes.                                 *)
(*                                                                         *)
(* A run is run_matching_workflow on the participant list and the rows of  *)
(* the MatchHistory tab; "Push to Tray" hands the payload's history_rows    *)
(* over, and the next run reads the tab with these rows appended.          *)
(*                                                                         *)
(* Python leaves three choices open: which maximum matching networkx       *)
(* returns, and the iteration order of the sets in create_triad            *)
(* (unmatched[0], "for pair in matches", list(matches)[0]).  Each is a     *)
(* nondeterministic choice here.  The order in which the payload lists     *)
(* the pair records is ascending; no property below reads that order.      *)
(***************************************************************************)
EXTENDS Integers, Sequences, FiniteSets, TLC

\* ------------------------------------------------------------------ bounds
MaxUsers == 5
MaxRows == 1
MaxRounds == 2

\* ------------------------------------------------------------ value domain
Emails == 1..MaxUsers

\* row.get(...) of a missing key
NoneVal == 0
\* an empty cell
EmptyStr == -1

\* the triad of a run that formed none (Python None)
NoTriad == <<>>

Range(s) == {s[i] : i \in DOMAIN s}

\* ------------------------------------------------------- history index
\* Python truthiness of a cell: None and '' are falsy
Truthy(p) == p # NoneVal /\ p # EmptyStr

\* history_dict.setdefault(k, []).append(v)
SetDefaultAppend(d, k, v) ==
    IF k \in DOMAIN d THEN [d EXCEPT ![k] = Append(@, v)]
                      ELSE [x \in DOMAIN d \cup {k} |-> IF x = k THEN <<v>> ELSE d[x]]

\* the body of the loop over history_rows
AddRowBuggyOneWay(d, row) ==
    IF Truthy(row.PersonA) /\ Truthy(row.PersonB)
    THEN SetDefaultAppend(d, row.PersonA, row.PersonB)
    ELSE d

AddRowBuggyNoneOnly(d, row) ==
    IF row.PersonA # NoneVal /\ row.PersonB # NoneVal
    THEN SetDefaultAppend(SetDefaultAppend(d, row.PersonA, row.PersonB),
                          row.PersonB, row.PersonA)
    ELSE d

AddRow(d, row) ==
    IF Truthy(row.PersonA) /\ Truthy(row.PersonB)
    THEN SetDefaultAppend(SetDefaultAppend(d, row.PersonA, row.PersonB),
                          row.PersonB, row.PersonA)
    ELSE d

RECURSIVE FoldRows(_, _)
FoldRows(d, rows) ==
    IF rows = <<>> THEN d ELSE FoldRows(AddRow(d, Head(rows)), Tail(rows))

EmptyDict == [x \in {} |-> <<>>]

TransformSheetHistoryToDict(history_rows) == FoldRows(EmptyDict, history_rows)

\* history.get(email, [])
HistoryGet(history, email) ==
    IF email \in DOMAIN history THEN history[email] ELSE <<>>

\* ---------------------------------------------------- compatibility graph
UserEmails(users) == [i \in DOMAIN users |-> users[i].email]

\* An undirected networkx graph: an edge is the set of its end points, so
\* a self-loop is a one-element set.
BuildGraphBuggyIgnoreHistory(users, history) ==
    LET user_emails == UserEmails(users)
    IN [nodes |-> Range(user_emails),
        edges |-> {{user_emails[i], user_emails[j]} :
                     i, j \in DOMAIN user_emails} \
                  {{user_emails[i]} : i \in DOMAIN user_emails}]

BuildCompatibilityGraph(users, history) ==
    LET user_emails == UserEmails(users)
        Pairs == {ij \in (DOMAIN user_emails) \X (DOMAIN user_emails) :
                    /\ ij[1] < ij[2]
                    /\ user_emails[ij[2]] \notin
                          Range(HistoryGet(history, user_emails[ij[1]]))}
    IN [nodes |-> Range(user_emails),
        edges |-> {{user_emails[ij[1]], user_emails[ij[2]]} : ij \in Pairs}]

\* ------------------------------------------------------ maximum matching
Min(S) == CHOOSE x \in S : \A y \in S : x <= y
Max(S) == CHOOSE x \in S : \A y \in S : x >= y

\* tuple(sorted([n1, n2]))
SortedPair(e) == <<Min(e), Max(e)>>

\* every set of pairwise disjoint edges of E
RECURSIVE Matchings(_)
Matchings(E) ==
    IF E = {} THEN {{}}
    ELSE LET e == CHOOSE f \in E : TRUE
             rest == E \ {e}
         IN Matchings(rest) \cup
            {m \cup {e} : m \in Matchings({f \in rest : f \cap e = {}})}

\* The values nx.max_weight_matching(G, maxcardinality=True) may return on
\* a graph of unit weights: a maximum-cardinality matching.  networkx skips
\* self-loops.
FindMatchingBuggyMaximal(G) ==
    LET E == {e \in G.edges : Cardinality(e) = 2}
        All == Matchings(E)
    IN {{SortedPair(e) : e \in m} :
          m \in {n \in All : \A e \in E : \E f \in n : f \cap e # {}}}

FindMaximumMatching(G) ==
    LET E == {e \in G.edges : Cardinality(e) = 2}
        All == Matchings(E)
        best == Max({Cardinality(m) : m \in All})
    IN {{SortedPair(e) : e \in m} : m \in {n \in All : Cardinality(n) = best}}

\* ------------------------------------------------------------- the triad
\* The values create_triad may return, each with the branch that returned it.
CreateTriadBuggyNoPreference(matches, all_users, history) ==
    LET matched_emails == UNION {Range(pair) : pair \in matches}
        all_emails == Range(UserEmails(all_users))
        unmatched == all_emails \ matched_emails
    IN IF unmatched = {} \/ matches = {}
       THEN {[value |-> NoTriad, branch |-> "none"]}
       ELSE {[value |-> <<pair[1], pair[2], u>>, branch |-> "fallback"] :
               pair \in matches, u \in unmatched}

CreateTriadBuggyNever(matches, all_users, history) ==
    {[value |-> NoTriad, branch |-> "none"]}

CreateTriad(matches, all_users, history) ==
    LET matched_emails == UNION {Range(pair) : pair \in matches}
        all_emails == Range(UserEmails(all_users))
        unmatched == all_emails \ matched_emails
        Outcomes(unmatched_email) ==
            LET unmatched_history == Range(HistoryGet(history, unmatched_email))
                clean == {pair \in matches : /\ pair[1] \notin unmatched_history
                                             /\ pair[2] \notin unmatched_history}
            IN IF clean # {}
               THEN {[value |-> <<pair[1], pair[2], unmatched_email>>,
                      branch |-> "clean"] : pair \in clean}
               ELSE IF matches # {}
               THEN {[value |-> <<lucky_pair[1], lucky_pair[2], unmatched_email>>,
                      branch |-> "fallback"] : lucky_pair \in matches}
               ELSE {[value |-> NoTriad, branch |-> "none"]}
    IN IF unmatched = {}
       THEN {[value |-> NoTriad, branch |-> "none"]}
       ELSE UNION {Outcomes(u) : u \in unmatched}

\* matches.remove(tuple(sorted([triad[0], triad[1]])))
RemoveTriadPairBuggyKeep(matches, triad) == matches

RemoveTriadPair(matches, triad) == matches \ {SortedPair({triad[1], triad[2]})}

\* ------------------------------------------------------------ the payload
\* lookup = {u['email']: u for u in users}: the last record of an email wins
Lookup(users, email) ==
    users[Max({i \in DOMAIN users : users[i].email = email})]

PairLess(p, q) == p[1] < q[1] \/ (p[1] = q[1] /\ p[2] < q[2])

RECURSIVE PairRecords(_, _)
PairRecords(matches, users) ==
    IF matches = {} THEN <<>>
    ELSE LET p == CHOOSE x \in matches : \A y \in matches \ {x} : PairLess(x, y)
         IN <<[match_type |-> "pair",
               person_a |-> Lookup(users, p[1]),
               person_b |-> Lookup(users, p[2])]>>
            \o PairRecords(matches \ {p}, users)

FormatMatchesForTray(matches, triad, users) ==
    PairRecords(matches, users) \o
    (IF triad # NoTriad
     THEN <<[match_type |-> "triad",
             person_a |-> Lookup(users, triad[1]),
             person_b |-> Lookup(users, triad[2]),
             person_c |-> Lookup(users, triad[3])]>>
     ELSE <<>>)

\* -------------------------------------------------------- history rows
Row(a, b) == [PersonA |-> a, PersonB |-> b]

RowsOfBuggyNoTriadRows(m) ==
    <<Row(m.person_a.email, m.person_b.email)>>

RowsOf(m) ==
    <<Row(m.person_a.email, m.person_b.email)>> \o
    (IF m.match_type = "triad"
     THEN <<Row(m.person_a.email, m.person_c.email),
            Row(m.person_b.email, m.person_c.email)>>
     ELSE <<>>)

RECURSIVE HistoryUpdates(_)
HistoryUpdates(results) ==
    IF results = <<>> THEN <<>>
    ELSE RowsOf(Head(results)) \o HistoryUpdates(Tail(results))

\* ------------------------------------------------------------------ state
VARIABLES
    active_participants,  \* the list handed to run_matching_workflow
    raw_history,          \* the rows of the MatchHistory tab
    formatted_history,    \* the history index of the last run
    G,                    \* the compatibility graph of the last run
    matching,             \* what find_maximum_matching returned
    matches,              \* the same set after the triad's pair left it
    triad,                \* the triad of the last run, or NoTriad
    branch,               \* the branch of create_triad that returned
    results,              \* the payload of the last run
    raised,               \* the last run ended in an exception
    prev_results,         \* the payload pushed before the last run
    round,                \* number of the current run
    pc                    \* "ready": before a run, "generated": after it

vars == <<active_participants, raw_history, formatted_history, G, matching,
          matches, triad, branch, results, raised, prev_results, round, pc>>

\* ----------------------------------------------------------------- inputs
\* participant lists, listed in ascending order of identifier; an
\* identifier may occur more than once
UserLists ==
    UNION {{[i \in 1..n |-> [email |-> f[i]]] :
              f \in {g \in [1..n -> Emails] :
                       \A i \in 1..n, j \in 1..n : i < j => g[i] <= g[j]}} :
           n \in 0..MaxUsers}

\* rows the sheet holds before the first run: a well-formed row, a row
\* whose first key is missing and a row whose second cell is empty
InitRows == {Row(1, 2), Row(NoneVal, 2), Row(1, EmptyStr)}

InitHistories ==
    UNION {[1..n -> InitRows] : n \in 0..MaxRows}

Init ==
    /\ active_participants \in UserLists
    /\ raw_history \in InitHistories
    /\ formatted_history = EmptyDict
    /\ G = [nodes |-> {}, edges |-> {}]
    /\ matching = {}
    /\ matches = {}
    /\ triad = NoTriad
    /\ branch = "none"
    /\ results = <<>>
    /\ raised = FALSE
    /\ prev_results = <<>>
    /\ round = 1
    /\ pc = "ready"

\* ---------------------------------------------------------------- actions
\* run_matching_workflow(active_participants, raw_history)
RunMatchingWorkflow ==
    /\ pc = "ready"
    /\ LET history == TransformSheetHistoryToDict(raw_history)
           graph == BuildCompatibilityGraph(active_participants, history)
       IN \E m \in FindMaximumMatching(graph) :
          \E t \in (IF Len(active_participants) % 2 # 0
                    THEN CreateTriad(m, active_participants, history)
                    ELSE {[value |-> NoTriad, branch |-> "none"]}) :
             LET key == IF t.value # NoTriad
                        THEN SortedPair({t.value[1], t.value[2]})
                        ELSE <<>>
                 keyError == t.value # NoTriad /\ key \notin m
                 left == IF t.value # NoTriad
                         THEN RemoveTriadPair(m, t.value)
                         ELSE m
                 named == UNION {Range(p) : p \in left} \cup Range(t.value)
                 lookupError == ~(named \subseteq graph.nodes)
             IN /\ formatted_history' = history
                /\ G' = graph
                /\ matching' = m
                /\ triad' = t.value
                /\ branch' = t.branch
                /\ raised' = (keyError \/ lookupError)
                /\ matches' = IF keyError THEN m ELSE left
                /\ results' = IF keyError \/ lookupError
                              THEN <<>>
                              ELSE FormatMatchesForTray(left, t.value,
                                                        active_participants)
    /\ pc' = "generated"
    /\ UNCHANGED <<active_participants, raw_history, prev_results, round>>

\* "Push to Tray": the payload's history_rows are appended to the
\* MatchHistory tab, and the next round starts from the sheet.
PushToTray ==
    /\ pc = "generated"
    /\ results # <<>>
    /\ round < MaxRounds
    /\ raw_history' = raw_history \o HistoryUpdates(results)
    /\ prev_results' = results
    /\ round' = round + 1
    /\ pc' = "ready"
    /\ UNCHANGED <<active_participants, formatted_history, G, matching,
                   matches, triad, branch, results, raised>>

Next == RunMatchingWorkflow \/ PushToTray

Spec == Init /\ [][Next]_vars

\* ------------------------------------------------- vocabulary of the claims
Done == pc = "generated"

Ids == {active_participants[i].email : i \in DOMAIN active_participants}

UniqueIds ==
    \A i, j \in DOMAIN active_participants :
        i # j => active_participants[i].email # active_participants[j].email

Members(r) ==
    {r.person_a.email, r.person_b.email} \cup
    (IF r.match_type = "triad" THEN {r.person_c.email} ELSE {})

PairRecs == {i \in DOMAIN results : results[i].match_type = "pair"}
TriadRecs == {i \in DOMAIN results : results[i].match_type = "triad"}

WellFormedRow(row) == /\ row.PersonA \notin {NoneVal, EmptyStr}
                      /\ row.PersonB \notin {NoneVal, EmptyStr}

\* x and y are named together by a well-formed row of the sheet
Met(x, y) ==
    \E i \in DOMAIN raw_history :
        /\ WellFormedRow(raw_history[i])
        /\ \/ raw_history[i].PersonA = x /\ raw_history[i].PersonB = y
           \/ raw_history[i].PersonA = y /\ raw_history[i].PersonB = x

\* y is listed under x in the history index of the last run
InIndex(x, y) ==
    x \in DOMAIN formatted_history /\ y \in Range(formatted_history[x])

Listed(h, x, y) == x \in DOMAIN h /\ y \in Range(h[x])

NonHistoryPairs == {e \in SUBSET Ids : Cardinality(e) = 2 /\
                        \A x, y \in e : x # y => ~Met(x, y)}

Matched == UNION {Range(p) : p \in matching}

\* C1: with unique identifiers, every identifier is named in at most one
\* role of at most one output record: the records are pairwise disjoint and
\* the members of a record are distinct.
C1_Disjoint ==
    (Done /\ UniqueIds) =>
        /\ \A i, j \in DOMAIN results :
               i # j => Members(results[i]) \cap Members(results[j]) = {}
        /\ \A i \in PairRecs : Cardinality(Members(results[i])) = 2
        /\ \A i \in TriadRecs : Cardinality(Members(results[i])) = 3
        /\ Cardinality(TriadRecs) <= 1

C1_Witness ==
    /\ Done /\ UniqueIds
    /\ PairRecs # {} /\ TriadRecs # {}

\* C2: person_a and person_b of every record have no entry between them in
\* the history index; person_c of the triad has none with person_a or
\* person_b unless the fallback branch formed the triad.
C2_HistoryExclusive ==
    Done =>
        \A i \in DOMAIN results :
            LET r == results[i]
            IN /\ ~InIndex(r.person_a.email, r.person_b.email)
               /\ ~InIndex(r.person_b.email, r.person_a.email)
               /\ (r.match_type = "triad" /\ branch # "fallback") =>
                     \A x \in {r.person_a.email, r.person_b.email} :
                         /\ ~InIndex(x, r.person_c.email)
                         /\ ~InIndex(r.person_c.email, x)

C2_Witness ==
    /\ Done
    /\ PairRecs # {}
    /\ \E i \in TriadRecs :
          /\ branch = "clean"
          /\ \E y \in Ids : InIndex(results[i].person_c.email, y)

\* C3: the set find_maximum_matching returned is a matching of non-history
\* pairs of active identifiers, no matching of such pairs is larger, and no
\* two unmatched identifiers are joined by an edge of the graph.
C3_MaximumCardinality ==
    Done =>
        /\ \A p \in matching : {p[1], p[2]} \in NonHistoryPairs
        /\ \A p, q \in matching : p # q => Range(p) \cap Range(q) = {}
        /\ \A M \in Matchings(NonHistoryPairs) :
               Cardinality(M) <= Cardinality(matching)
        /\ \A x, y \in Ids \ Matched : x # y => {x, y} \notin G.edges

C3_Witness ==
    /\ Done
    /\ matching # {}
    /\ Ids \ Matched # {}
    /\ \E x, y \in Ids : x # y /\ Met(x, y)
    /\ Cardinality(NonHistoryPairs) > Cardinality(matching)

\* two people of one record of this run who shared a record of the run before
Repeats ==
    {xy \in Ids \X Ids :
        /\ xy[1] # xy[2]
        /\ \E i \in DOMAIN results : {xy[1], xy[2]} \subseteq Members(results[i])
        /\ \E k \in DOMAIN prev_results :
               {xy[1], xy[2]} \subseteq Members(prev_results[k])}

GraphHasEdges == \E e \in G.edges : Cardinality(e) = 2

\* C4 as stated: in the run after a push, no two people who shared a record
\* of the pushed result share a record again, when the graph has edges.
C4_NoRepeat_Original ==
    (Done /\ round >= 2 /\ GraphHasEdges) => Repeats = {}

\* C4 as amended: the only repeats are between person_c of a triad formed
\* by the fallback branch and its person_a or person_b.
C4_NoRepeatButFallback ==
    (Done /\ round >= 2 /\ GraphHasEdges) =>
        \A xy \in Repeats :
            /\ branch = "fallback"
            /\ triad # NoTriad
            /\ triad[3] \in {xy[1], xy[2]}
            /\ {xy[1], xy[2]} \subseteq Range(triad)

C4_Witness ==
    /\ Done /\ round >= 2 /\ GraphHasEdges
    /\ PairRecs # {}
    /\ branch = "fallback"
    /\ Repeats # {}

\* C5: with no prior history, unique identifiers and n >= 2, nobody is left
\* out: n/2 pairs and no triad for even n, (n-3)/2 pairs and one triad for
\* odd n, every identifier in exactly one record.
C5_NobodyLeftOut ==
    LET n == Len(active_participants)
    IN (Done /\ UniqueIds /\ n >= 2 /\
        \A i \in DOMAIN raw_history : ~WellFormedRow(raw_history[i])) =>
           /\ n % 2 = 0 => /\ 2 * Cardinality(PairRecs) = n
                           /\ TriadRecs = {}
           /\ n % 2 = 1 => /\ 2 * Cardinality(PairRecs) = n - 3
                           /\ Cardinality(TriadRecs) = 1
           /\ \A x \in Ids :
                  Cardinality({i \in DOMAIN results : x \in Members(results[i])}) = 1

C5_Witness ==
    /\ Done /\ UniqueIds /\ raw_history = <<>>
    /\ Len(active_participants) = 5
    /\ Cardinality(PairRecs) = 1 /\ Cardinality(TriadRecs) = 1

Symmetric(h) ==
    \A x \in DOMAIN h : \A y \in Range(h[x]) : Listed(h, y, x)

\* C6: the history index is symmetric; the rows produced from a result are
\* one row per pair record and the rows a-b, a-c, b-c of a triad record,
\* and the index rebuilt from the old rows and these rows is symmetric and
\* lists every two members of every record.
C6_SymmetricAndCovering ==
    Done =>
        LET rows == HistoryUpdates(results)
            next == TransformSheetHistoryToDict(raw_history \o rows)
        IN /\ Symmetric(formatted_history)
           /\ \A x, y \in Ids : Met(x, y) <=> InIndex(x, y)
           /\ Len(rows) = Cardinality(PairRecs) + 3 * Cardinality(TriadRecs)
           /\ \A i \in DOMAIN results :
                 \A x, y \in Members(results[i]) :
                     x # y => /\ \E k \in DOMAIN rows :
                                    {rows[k].PersonA, rows[k].PersonB} = {x, y}
                              /\ Listed(next, x, y)
           /\ Symmetric(next)

C6_Witness ==
    /\ Done /\ round >= 2
    /\ TriadRecs # {} /\ PairRecs # {}
    /\ \E k \in DOMAIN prev_results : prev_results[k].match_type = "triad"
    /\ DOMAIN formatted_history # {}

NoPairLeft ==
    \A i, j \in DOMAIN active_participants :
        \/ active_participants[i].email = active_participants[j].email
        \/ Met(active_participants[i].email, active_participants[j].email)

\* C7: no participant, one participant, or every pair already in history
\* gives an empty result and no exception; malformed rows are skipped and
\* the index is the one the well-formed rows alone give.
C7_Degenerate ==
    Done =>
        /\ (Len(active_participants) <= 1 \/ NoPairLeft) =>
               (results = <<>> /\ ~raised /\ triad = NoTriad)
        /\ formatted_history =
               TransformSheetHistoryToDict(SelectSeq(raw_history, WellFormedRow))
        /\ \A k \in DOMAIN formatted_history :
               /\ k \notin {NoneVal, EmptyStr}
               /\ \A v \in Range(formatted_history[k]) : v \notin {NoneVal, EmptyStr}

C7_Witness ==
    /\ Done /\ UniqueIds
    /\ Len(active_participants) = 3
    /\ NoPairLeft
    /\ results = <<>>
    /\ \E i \in DOMAIN raw_history : ~WellFormedRow(raw_history[i])

\* C8 as stated: a triad record is present iff the participant count is odd
\* and the matching is non-empty; it is one pair of the matching plus one
\* participant of no pair, and that pair has left the pair records.
C8_TriadIff ==
    Done =>
        /\ (TriadRecs # {}) <=>
               (Len(active_participants) % 2 = 1 /\ matching # {})
        /\ Cardinality(TriadRecs) <= 1
        /\ \A i \in TriadRecs :
               /\ <<results[i].person_a.email, results[i].person_b.email>> \in matching
               /\ results[i].person_c.email \in Ids \ Matched
               /\ Cardinality(PairRecs) = Cardinality(matching) - 1

\* C9: when the matching holds a pair neither member of which is in the
\* history of the chosen unmatched participant, the triad's pair is such a
\* pair.
C9_PrefersClean ==
    (Done /\ triad # NoTriad) =>
        LET U == triad[3]
            clean == {p \in matching : ~InIndex(U, p[1]) /\ ~InIndex(U, p[2])}
        IN /\ U \in Ids \ Matched
           /\ <<triad[1], triad[2]>> \in matching
           /\ clean # {} => <<triad[1], triad[2]>> \in clean

C9_Witness ==
    /\ Done /\ triad # NoTriad
    /\ branch = "clean"
    /\ \E p \in matching : InIndex(triad[3], p[1]) \/ InIndex(triad[3], p[2])

\* C10 as stated: the nodes are the active identifiers, {A, B} is an edge
\* iff A # B and B is not in the history of A, and no edge is a self-loop.
C10_GraphExact ==
    Done =>
        /\ G.nodes = Ids
        /\ \A a, b \in Ids :
               ({a, b} \in G.edges) <=> (a # b /\ ~InIndex(a, b))
        /\ \A e \in G.edges : Cardinality(e) = 2

====
